---- MODULE Spec2Model ----
(***************************************************************************)
(* Model of src/main.py: the in-memory document store (_store), the        *)
(* registry (_registry), the resolution engine (deep_merge,                *)
(* latest_versions_for, sort_scopes, match_route, effective_for_component, *)
(* effective_all), get_history, and the mutating handlers                  *)
(* (upsert_component, delete_all, delete_component).                       *)
(*                                                                         *)
(* Strings that the code compares, measures or globs (scopeKey, route,     *)
(* page) are sequences of one-character strings, so that len(), fnmatch()  *)
(* and the lexicographic sort of get_history are computed, not assumed.    *)
(* JSON values are tagged records: null, number, array, mapping.           *)
(* createdAt / createdBy are provenance the code never reads back; they    *)
(* are left out of the document record.                                    *)
(***************************************************************************)
EXTENDS Integers, Sequences, FiniteSets, TLC

VARIABLES
    store,      \* _store: the sequence of ConfigDoc records, in list order
    last,       \* the last completed call under Spec: its arguments and response
    returned,   \* history: scope and version of each successful upsert whose
                \* document no delete has removed since, in call order
    pc,         \* per worker thread: where it stands in a handler, its locals
    reads,      \* under SpecConc: the last effective_all call that returned
    ma, mb, mc, \* under SpecMerge: the arguments of deep_merge
    mres,       \* under SpecMerge: the results of deep_merge
    heap,       \* under SpecHeap: the dict objects, by address
    glob        \* under SpecMatch: a call of match_route and what it gave

vars == <<store, last, returned, pc, reads, ma, mb, mc, mres, heap, glob>>

(***************************************************************************)
(* JSON values                                                             *)
(***************************************************************************)
None == [t |-> "null"]
Num(n) == [t |-> "num", n |-> n]
Arr(s) == [t |-> "arr", a |-> s]
Map(f) == [t |-> "map", m |-> f]

IsNone(v) == v.t = "null"
IsDict(v) == v.t = "map"
Keys(v) == DOMAIN v.m

\* dict.get(k): the value at k, None when the key is absent
Get(d, k) == IF k \in DOMAIN d.m THEN d.m[k] ELSE None

EmptyFn == [k \in {} |-> None]
EmptyDict == Map(EmptyFn)

\* a one-key mapping, and the union of two mappings with disjoint keys
One(k, v) == Map([x \in {k} |-> v])
Both(d1, d2) ==
    Map([x \in DOMAIN d1.m \cup DOMAIN d2.m |->
            IF x \in DOMAIN d1.m THEN d1.m[x] ELSE d2.m[x]])

(***************************************************************************)
(* deep_merge (main.py 87-96)                                              *)
(***************************************************************************)
RECURSIVE deep_merge(_, _)
\* a plausible slip: a shallow dict.update(), nested mappings replaced whole
deep_merge_shallow(base, override) ==
    IF IsNone(override) THEN base
    ELSE IF IsDict(base) /\ IsDict(override)
         THEN Map([k \in Keys(base) \cup Keys(override) |->
                     IF k \in Keys(override) /\ ~IsNone(override.m[k])
                     THEN override.m[k]
                     ELSE Get(base, k)])
         ELSE override

\* a plausible slip: the None test of line 88 left out, null replaces
deep_merge_null_replaces(base, override) ==
    IF IsDict(base) /\ IsDict(override)
    THEN Map([k \in Keys(base) \cup Keys(override) |->
                IF k \in Keys(override)
                THEN deep_merge(Get(base, k), override.m[k])
                ELSE base.m[k]])
    ELSE override

deep_merge(base, override) ==
    IF IsNone(override) THEN base
    ELSE IF IsDict(base) /\ IsDict(override)
         THEN Map([k \in Keys(base) \cup Keys(override) |->
                     IF k \in Keys(override)
                     THEN deep_merge(Get(base, k), override.m[k])
                     ELSE base.m[k]])
         ELSE override

(***************************************************************************)
(* Strings as character sequences                                          *)
(***************************************************************************)
Star == <<"*">>
Home == <<"h", "o", "m", "e">>
Cart == <<"c", "a", "r", "t">>
RAll == <<"/", "*">>
RPre == <<"/", "a", "*">>
RSuf == <<"/", "*", "a">>
PathA == <<"/", "a">>
PathAB == <<"/", "a", "b">>
PathBA == <<"/", "b", "a">>
\* Optional[str] = None and the empty string are both falsy at lines 154-155
NoStr == <<>>

\* code points, for Python's str ordering (get_history's sort key)
Ord(c) ==
    CASE c = "*" -> 42 [] c = "/" -> 47 [] c = "?" -> 63
      [] c = "a" -> 97 [] c = "b" -> 98 [] c = "c" -> 99 [] c = "e" -> 101
      [] c = "g" -> 103 [] c = "h" -> 104 [] c = "m" -> 109 [] c = "o" -> 111
      [] c = "r" -> 114 [] c = "t" -> 116

RECURSIVE StrLess(_, _)
StrLess(x, y) ==
    IF y = <<>> THEN FALSE
    ELSE IF x = <<>> THEN TRUE
    ELSE IF Head(x) = Head(y) THEN StrLess(Tail(x), Tail(y))
    ELSE Ord(Head(x)) < Ord(Head(y))

\* 'global' < 'page' < 'route' in Python's str ordering
TypeRank(st) == CASE st = "global" -> 0 [] st = "page" -> 1 [] st = "route" -> 2

(***************************************************************************)
(* match_route (main.py 131-133): fnmatch(route, pattern) on POSIX, where  *)
(* '*' matches any run of characters ('/' included) and '?' exactly one.   *)
(* Bracket expressions do not occur in the patterns of this model.         *)
(***************************************************************************)
RECURSIVE fnmatch(_, _)
fnmatch(name, pat) ==
    IF pat = <<>> THEN name = <<>>
    ELSE IF Head(pat) = "*"
         THEN fnmatch(name, Tail(pat))
              \/ (name # <<>> /\ fnmatch(Tail(name), pat))
         ELSE /\ name # <<>>
              /\ (Head(pat) = "?" \/ Head(pat) = Head(name))
              /\ fnmatch(Tail(name), Tail(pat))

\* a plausible slip: '*' stops at the first character, a prefix test only
match_route_prefix(pattern, route) ==
    /\ Len(route) >= Len(pattern) - 1
    /\ \A i \in 1..(Len(pattern) - 1) : pattern[i] = "*" \/ pattern[i] = route[i]

match_route(pattern, route) == fnmatch(route, pattern)

(***************************************************************************)
(* _registry (main.py 52, 55-62): loaded once, read-only afterwards.       *)
(* "header" declares a default and a schema, "banner" a default only,      *)
(* "menu" a schema only; "footer" has no entry. The schema is              *)
(* {"type": "object", "required": ["b"]}: Draft202012Validator.iter_errors *)
(* yields one error per missing required property.                         *)
(***************************************************************************)
HeaderDefault == Both(One("a", Num(0)), One("d", One("x", Num(0))))
BannerDefault == One("c", Num(5))

registry ==
    [k \in {"header", "banner", "menu"} |->
        IF k = "header"
        THEN [default |-> HeaderDefault, schema |-> [required |-> <<"b">>]]
        ELSE IF k = "banner"
             THEN [default |-> BannerDefault]
             ELSE [schema |-> [required |-> <<"b">>]]]

\* a plausible slip: entry.get('default') without the test for the key, so
\* an entry that declares no default yields None
default_for_unchecked(component_key) ==
    IF component_key \in DOMAIN registry
    THEN IF "default" \in DOMAIN registry[component_key]
         THEN registry[component_key].default
         ELSE None
    ELSE EmptyDict

\* default_for (main.py 99-101)
default_for(component_key) ==
    IF component_key \in DOMAIN registry
       /\ "default" \in DOMAIN registry[component_key]
    THEN registry[component_key].default
    ELSE EmptyDict

\* validate_value (main.py 104-113): <<>> stands for None (no errors),
\* otherwise the sequence of violations in the validator's order
validate_value(component_key, value) ==
    IF component_key \notin DOMAIN registry
       \/ "schema" \notin DOMAIN registry[component_key]
    THEN <<>>
    ELSE LET req == registry[component_key].schema.required
         IN  IF IsDict(value)
             THEN SelectSeq(req, LAMBDA k : k \notin Keys(value))
             ELSE <<>>

(***************************************************************************)
(* ConfigDoc (main.py 36-46) and scans of _store                           *)
(***************************************************************************)
ConfigDoc(tenant, env, componentKey, scopeType, scopeKey, version, value) ==
    [tenant |-> tenant, env |-> env, componentKey |-> componentKey,
     scopeType |-> scopeType, scopeKey |-> scopeKey,
     version |-> version, value |-> value]

SameIdentity(d, tenant, env, component_key) ==
    d.tenant = tenant /\ d.env = env /\ d.componentKey = component_key

SameScope(d, tenant, env, component_key, scope_type, scope_key) ==
    /\ SameIdentity(d, tenant, env, component_key)
    /\ d.scopeType = scope_type
    /\ d.scopeKey = scope_key

Range(f) == {f[i] : i \in DOMAIN f}

Max0(S) == IF S = {} THEN 0 ELSE CHOOSE x \in S : \A y \in S : y <= x

(***************************************************************************)
(* sort_scopes (main.py 116-128): sorted() is stable                       *)
(***************************************************************************)
score(doc) ==
    IF doc.scopeType = "global" THEN <<0, 0>>
    ELSE IF doc.scopeType = "page" THEN <<1, Len(doc.scopeKey)>>
    ELSE IF doc.scopeType = "route" THEN <<2, Len(doc.scopeKey)>>
    ELSE <<0, 0>>

TupleLess(x, y) == x[1] < y[1] \/ (x[1] = y[1] /\ x[2] < y[2])

\* d goes in front of the first element with a strictly greater key
InsertStable(sorted, d) ==
    LET after == {i \in 1..Len(sorted) : TupleLess(score(d), score(sorted[i]))}
        pos == IF after = {} THEN Len(sorted) + 1
               ELSE CHOOSE i \in after : \A j \in after : i <= j
    IN  SubSeq(sorted, 1, pos - 1) \o <<d>> \o SubSeq(sorted, pos, Len(sorted))

RECURSIVE SortFrom(_, _)
SortFrom(scopes, sorted) ==
    IF scopes = <<>> THEN sorted
    ELSE SortFrom(Tail(scopes), InsertStable(sorted, Head(scopes)))

\* a plausible slip: reverse=True, the most specific pattern applied first
RECURSIVE Reverse(_)
Reverse(q) == IF q = <<>> THEN <<>> ELSE Append(Reverse(Tail(q)), Head(q))

sort_scopes_desc(scopes) == Reverse(SortFrom(scopes, <<>>))

sort_scopes(scopes) == SortFrom(scopes, <<>>)

(***************************************************************************)
(* latest_versions_for (main.py 136-146): dict keyed by (scopeType,        *)
(* scopeKey); list(latest.values()) is in order of first insertion         *)
(***************************************************************************)
RECURSIVE LatestFrom(_, _)
LatestFrom(candidates, latest) ==
    IF candidates = <<>> THEN latest
    ELSE LET d == Head(candidates)
             at == {i \in 1..Len(latest) :
                      /\ latest[i].scopeType = d.scopeType
                      /\ latest[i].scopeKey = d.scopeKey}
         IN  IF at = {}
             THEN LatestFrom(Tail(candidates), Append(latest, d))
             ELSE LET i == CHOOSE j \in at : TRUE
                  IN  IF d.version > latest[i].version
                      THEN LatestFrom(Tail(candidates), [latest EXCEPT ![i] = d])
                      ELSE LatestFrom(Tail(candidates), latest)

\* a plausible slip: the first document seen of a scope is kept
RECURSIVE FirstFrom(_, _)
FirstFrom(candidates, latest) ==
    IF candidates = <<>> THEN latest
    ELSE LET d == Head(candidates)
         IN  IF \E i \in 1..Len(latest) :
                    /\ latest[i].scopeType = d.scopeType
                    /\ latest[i].scopeKey = d.scopeKey
             THEN FirstFrom(Tail(candidates), latest)
             ELSE FirstFrom(Tail(candidates), Append(latest, d))

latest_versions_first(s, tenant, env, component_key) ==
    FirstFrom(SelectSeq(s, LAMBDA d : SameIdentity(d, tenant, env, component_key)),
              <<>>)

latest_versions_for(s, tenant, env, component_key) ==
    LatestFrom(SelectSeq(s, LAMBDA d : SameIdentity(d, tenant, env, component_key)),
               <<>>)

(***************************************************************************)
(* effective_for_component (main.py 149-164)                               *)
(***************************************************************************)
RECURSIVE MergeAll(_, _)
MergeAll(effective, docs) ==
    IF docs = <<>> THEN effective
    ELSE MergeAll(deep_merge(effective, Head(docs).value), Tail(docs))

globals_(docs) == SelectSeq(docs, LAMBDA d : d.scopeType = "global")

\* a plausible slip: the comparison with the page id left out of line 154
pages_any(docs, page) ==
    SelectSeq(docs, LAMBDA d : d.scopeType = "page" /\ page # NoStr)

pages_(docs, page) ==
    SelectSeq(docs, LAMBDA d : d.scopeType = "page" /\ page # NoStr /\ d.scopeKey = page)

routes_(docs, route) ==
    SelectSeq(docs, LAMBDA d : /\ d.scopeType = "route"
                               /\ route # NoStr
                               /\ match_route(d.scopeKey, route))

\* a plausible slip: page applied last, after the routes
effective_page_last(s, tenant, env, component_key, route, page) ==
    LET docs == latest_versions_for(s, tenant, env, component_key)
        e0 == default_for(component_key)
        e1 == MergeAll(e0, sort_scopes(globals_(docs)))
        e2 == MergeAll(e1, sort_scopes(routes_(docs, route)))
    IN  MergeAll(e2, sort_scopes(pages_(docs, page)))

effective_for_component(s, tenant, env, component_key, route, page) ==
    LET docs == latest_versions_for(s, tenant, env, component_key)
        e0 == default_for(component_key)
        e1 == MergeAll(e0, sort_scopes(globals_(docs)))
        e2 == MergeAll(e1, sort_scopes(pages_(docs, page)))
    IN  MergeAll(e2, sort_scopes(routes_(docs, route)))

(***************************************************************************)
(* effective_all (main.py 167-176)                                         *)
(***************************************************************************)
\* a plausible slip: the tenant/env test of line 171 left out
known_keys_any_tenant(s, tenant, env) ==
    DOMAIN registry \cup {d.componentKey : d \in Range(s)}

known_keys(s, tenant, env) ==
    DOMAIN registry
        \cup {d.componentKey : d \in {x \in Range(s) : x.tenant = tenant /\ x.env = env}}

effective_all(s, tenant, env, route, page) ==
    [key \in known_keys(s, tenant, env) |->
        effective_for_component(s, tenant, env, key, route, page)]

(***************************************************************************)
(* get_history (main.py 206-216), its list: list.sort() is stable          *)
(***************************************************************************)
HistLess(x, y) ==
    \/ TypeRank(x.scopeType) < TypeRank(y.scopeType)
    \/ /\ x.scopeType = y.scopeType
       /\ \/ StrLess(x.scopeKey, y.scopeKey)
          \/ x.scopeKey = y.scopeKey /\ x.version < y.version

HistInsert(sorted, d) ==
    LET after == {i \in 1..Len(sorted) : HistLess(d, sorted[i])}
        pos == IF after = {} THEN Len(sorted) + 1
               ELSE CHOOSE i \in after : \A j \in after : i <= j
    IN  SubSeq(sorted, 1, pos - 1) \o <<d>> \o SubSeq(sorted, pos, Len(sorted))

RECURSIVE HistSort(_, _)
HistSort(docs, sorted) ==
    IF docs = <<>> THEN sorted
    ELSE HistSort(Tail(docs), HistInsert(sorted, Head(docs)))

\* a plausible slip: the list taken from latest_versions_for, one document
\* per scope
history_docs_latest(s, tenant, env, component_key) ==
    HistSort(latest_versions_for(s, tenant, env, component_key), <<>>)

history_docs(s, tenant, env, component_key) ==
    HistSort(SelectSeq(s, LAMBDA d : SameIdentity(d, tenant, env, component_key)),
             <<>>)

(***************************************************************************)
(* Bounds and inputs                                                       *)
(***************************************************************************)
MaxStore == 3

V1 == Both(One("a", Num(1)), One("b", Num(1)))
V2 == Both(Both(One("b", Num(2)), One("c", None)), One("d", One("y", Num(1))))
V3 == One("a", Num(2))
\* V1 and V2 pass the schema of "header", V3 lacks the required "b"

\* the writes to ("default", "dev", "header"): every scope is written, the
\* global scope with either value, and the page scope also with a value the
\* schema rejects
HeaderWrites ==
    {<<"global", Star, V1>>, <<"global", Star, V2>>,
     <<"page", Home, V2>>, <<"page", Home, V3>>,
     <<"route", RAll, V1>>, <<"route", RPre, V2>>, <<"route", RSuf, V1>>}

\* PUT requests: the path's component_key, the query parameters ("" when not
\* given) and the JSON body, whose keys are all optional
Requests ==
    {[component_key |-> "header", tenant_q |-> "", env_q |-> "",
      body |-> [scopeType |-> w[1], scopeKey |-> w[2], value |-> w[3]]] :
        w \in HeaderWrites}
    \cup {[component_key |-> "footer", tenant_q |-> "", env_q |-> "dev",
           body |-> [value |-> V3]],
          [component_key |-> "header", tenant_q |-> "acme", env_q |-> "",
           body |-> [scopeKey |-> Star, value |-> V1]],
          [component_key |-> "header", tenant_q |-> "acme", env_q |-> "",
           body |-> [tenant |-> "default", env |-> "prod", value |-> V1]]}

Identities ==
    {<<"default", "dev", "header">>, <<"default", "dev", "footer">>,
     <<"acme", "dev", "header">>, <<"default", "prod", "header">>}

\* the request contexts (route, page) the properties range over: PathA
\* matches all three patterns, PathAB only RAll and RPre, PathBA only RAll
\* and RSuf
Contexts ==
    {<<NoStr, NoStr>>, <<PathA, Home>>, <<PathA, NoStr>>, <<NoStr, Home>>,
     <<PathAB, Cart>>, <<PathBA, Home>>}

\* the GET requests issued
Gets == {<<"default", "dev", "header", PathA, Home>>}

Idle == [op |-> "none"]

(***************************************************************************)
(* upsert_component (main.py 219-258)                                      *)
(***************************************************************************)
\* lines 227-231: body.get(key, default)
BodyGet(body, key, dflt) == IF key \in DOMAIN body THEN body[key] ELSE dflt

ReqTenant(r) == BodyGet(r.body, "tenant", IF r.tenant_q # "" THEN r.tenant_q ELSE "default")
ReqEnv(r) == BodyGet(r.body, "env", IF r.env_q # "" THEN r.env_q ELSE "dev")
ReqScopeType(r) == BodyGet(r.body, "scopeType", "global")
ReqScopeKey(r) == BodyGet(r.body, "scopeKey", Star)
ReqValue(r) == BodyGet(r.body, "value", EmptyDict)

\* line 240
existing(s, r) ==
    SelectSeq(s, LAMBDA d : SameScope(d, ReqTenant(r), ReqEnv(r), r.component_key,
                                      ReqScopeType(r), ReqScopeKey(r)))

\* a plausible slip: the scope left out of the filter of line 240
next_version_any_scope(s, r) ==
    Max0({d.version : d \in {x \in Range(s) :
             SameIdentity(x, ReqTenant(r), ReqEnv(r), r.component_key)}}) + 1

\* a plausible slip: max(..., default=1), a new scope starting at 2
next_version_default_one(s, r) ==
    (IF existing(s, r) = <<>> THEN 1
     ELSE Max0({d.version : d \in Range(existing(s, r))})) + 1

\* line 241
next_version(s, r) == Max0({d.version : d \in Range(existing(s, r))}) + 1

\* lines 243-253
NewDoc(r, version) ==
    ConfigDoc(ReqTenant(r), ReqEnv(r), r.component_key,
              ReqScopeType(r), ReqScopeKey(r), version, ReqValue(r))

ScopeOf(d) == <<d.tenant, d.env, d.componentKey, d.scopeType, d.scopeKey>>

\* the call that returned l was a delete that removed documents of scope sc
Removed(l, sc) == l.op \in {"delete_all", "delete_component"} /\ sc \in l.scopes

\* a plausible slip: the document appended before the value is validated
upsert_rejected_after_append(r) ==
    /\ validate_value(r.component_key, ReqValue(r)) # <<>>
    /\ Len(store) < MaxStore
    /\ store' = Append(store, NewDoc(r, next_version(store, r)))
    /\ last' = [op |-> "upsert", status |-> "ValidationError", req |-> r,
                details |-> validate_value(r.component_key, ReqValue(r))]
    /\ UNCHANGED returned

upsert_rejected(r) ==
    /\ validate_value(r.component_key, ReqValue(r)) # <<>>
    /\ last' = [op |-> "upsert", status |-> "ValidationError", req |-> r,
                details |-> validate_value(r.component_key, ReqValue(r))]
    /\ UNCHANGED <<store, returned>>

\* a plausible slip: the document appended to a copy of the list
upsert_appended_to_copy(r) ==
    /\ validate_value(r.component_key, ReqValue(r)) = <<>>
    /\ Len(store) < MaxStore
    /\ store' = store
    /\ last' = [op |-> "upsert", status |-> "ok", req |-> r,
                version |-> next_version(store, r),
                after_delete |-> Removed(last, ScopeOf(NewDoc(r, 0)))]
    /\ returned' = Append(returned, [scope |-> ScopeOf(NewDoc(r, 0)),
                                     version |-> next_version(store, r)])

upsert_appended(r) ==
    /\ validate_value(r.component_key, ReqValue(r)) = <<>>
    /\ Len(store) < MaxStore
    /\ store' = Append(store, NewDoc(r, next_version(store, r)))
    /\ last' = [op |-> "upsert", status |-> "ok", req |-> r,
                version |-> next_version(store, r),
                after_delete |-> Removed(last, ScopeOf(NewDoc(r, 0)))]
    /\ returned' = Append(returned, [scope |-> ScopeOf(NewDoc(r, 0)),
                                     version |-> next_version(store, r)])

upsert_component(r) ==
    /\ upsert_rejected(r) \/ upsert_appended(r)
    /\ UNCHANGED <<pc, reads, ma, mb, mc, mres, heap, glob>>

(***************************************************************************)
(* delete_all (main.py 262-267), delete_component (main.py 270-280)        *)
(***************************************************************************)
delete_all ==
    /\ store' = <<>>
    /\ returned' = <<>>
    /\ last' = [op |-> "delete_all", status |-> "cleared", removed |-> Len(store),
                scopes |-> {ScopeOf(d) : d \in Range(store)}]
    /\ UNCHANGED <<pc, reads, ma, mb, mc, mres, heap, glob>>

\* a plausible slip: the env left out of the condition of line 277
keep_ignoring_env(s, tenant, env, component_key) ==
    SelectSeq(s, LAMBDA d : ~(d.tenant = tenant /\ d.componentKey = component_key))

\* line 277
keep(s, tenant, env, component_key) ==
    SelectSeq(s, LAMBDA d : ~SameIdentity(d, tenant, env, component_key))

delete_component(tenant, env, component_key) ==
    /\ store' = keep(store, tenant, env, component_key)
    /\ returned' = SelectSeq(returned, LAMBDA x :
                      ~(x.scope[1] = tenant /\ x.scope[2] = env
                        /\ x.scope[3] = component_key))
    /\ last' = [op |-> "delete_component", status |-> "deleted",
                tenant |-> tenant, env |-> env, component_key |-> component_key,
                removed |-> Len(store) - Len(keep(store, tenant, env, component_key)),
                scopes |-> {ScopeOf(d) : d \in {x \in Range(store) :
                                SameIdentity(x, tenant, env, component_key)}}]
    /\ UNCHANGED <<pc, reads, ma, mb, mc, mres, heap, glob>>

(***************************************************************************)
(* The GET handlers (main.py 181-216)                                      *)
(***************************************************************************)
get_all_effective(tenant, env, route, page) ==
    /\ last' = [op |-> "get_all_effective", tenant |-> tenant, env |-> env,
                route |-> route, page |-> page,
                result |-> effective_all(store, tenant, env, route, page)]
    /\ UNCHANGED <<store, returned, pc, reads, ma, mb, mc, mres, heap, glob>>

get_component_effective(component_key, tenant, env, route, page) ==
    /\ last' = [op |-> "get_component_effective", tenant |-> tenant, env |-> env,
                component_key |-> component_key, route |-> route, page |-> page,
                result |-> effective_for_component(store, tenant, env,
                                                   component_key, route, page)]
    /\ UNCHANGED <<store, returned, pc, reads, ma, mb, mc, mres, heap, glob>>

get_history(component_key, tenant, env) ==
    /\ last' = [op |-> "get_history", tenant |-> tenant, env |-> env,
                component_key |-> component_key,
                result |-> history_docs(store, tenant, env, component_key)]
    /\ UNCHANGED <<store, returned, pc, reads, ma, mb, mc, mres, heap, glob>>

(***************************************************************************)
(* Spec: the handlers, each call run to completion before the next         *)
(***************************************************************************)
Threads == {"t1", "t2"}

Init ==
    /\ store = <<>>
    /\ last = Idle
    /\ returned = <<>>
    /\ pc = [t \in Threads |-> [at |-> "idle", n |-> 0]]
    /\ reads = <<>>
    /\ ma = None /\ mb = None /\ mc = None /\ mres = [at |-> "off"]
    /\ heap = <<>>
    /\ glob = [at |-> "off"]

Next ==
    \/ \E r \in Requests : upsert_component(r)
    \/ delete_all
    \/ \E id \in Identities : delete_component(id[1], id[2], id[3])
    \/ \E g \in Gets : get_component_effective(g[3], g[1], g[2], g[4], g[5])
    \/ \E g \in Gets : get_all_effective(g[1], g[2], g[4], g[5])
    \/ \E g \in Gets : get_history(g[3], g[1], g[2])

Spec == Init /\ [][Next]_vars

(***************************************************************************)
(* SpecConc: the handlers are plain `def` endpoints, which the framework   *)
(* runs on worker threads; nothing in main.py locks _store. A thread may   *)
(* be preempted between the statements of a handler: between the scan of   *)
(* line 240 and the append of line 255, between line 277 and line 278, and *)
(* between the iterations of the loop of lines 174-175. Each scan of       *)
(* _store is taken as one step, which leaves out behaviours (a scan torn   *)
(* by a concurrent write) and adds none.                                   *)
(***************************************************************************)
MaxCalls == 2

ConcRequests ==
    {[component_key |-> "header", tenant_q |-> "", env_q |-> "",
      body |-> [value |-> V1]],
     [component_key |-> "header", tenant_q |-> "", env_q |-> "",
      body |-> [value |-> V2]],
     [component_key |-> "footer", tenant_q |-> "", env_q |-> "",
      body |-> [value |-> V3]]}

ConcDeletes == {<<"default", "dev", "header">>, <<"default", "dev", "footer">>}

\* sorted(keys), line 174
KeyOrder == <<"banner", "footer", "header", "menu">>
SortedKeys(keys) == SelectSeq(KeyOrder, LAMBDA k : k \in keys)

AtIdle(t) == pc[t].at = "idle" /\ pc[t].n < MaxCalls
Appending == {t \in Threads : pc[t].at = "append"}

\* every effective_all call in flight has now also run against store s
Observe(p, s) ==
    [t \in Threads |->
        IF p[t].at = "resolve" THEN [p[t] EXCEPT !.seen = @ \cup {s}] ELSE p[t]]

\* lines 227-253: the document is built from the scan of line 240
upsert_scan(t, r) ==
    /\ AtIdle(t)
    /\ validate_value(r.component_key, ReqValue(r)) = <<>>
    /\ Len(store) + Cardinality(Appending) < MaxStore
    /\ pc' = [pc EXCEPT ![t] = [at |-> "append", n |-> @.n + 1,
                                doc |-> NewDoc(r, next_version(store, r))]]
    /\ UNCHANGED <<store, last, returned, reads, ma, mb, mc, mres, heap, glob>>

\* lines 255-258
upsert_append(t) ==
    /\ pc[t].at = "append"
    /\ store' = Append(store, pc[t].doc)
    /\ pc' = Observe([pc EXCEPT ![t] = [at |-> "idle", n |-> @.n]], store')
    /\ UNCHANGED <<last, returned, reads, ma, mb, mc, mres, heap, glob>>

\* line 265
delete_all_clear(t) ==
    /\ AtIdle(t)
    /\ store' = <<>>
    /\ pc' = Observe([pc EXCEPT ![t] = [at |-> "idle", n |-> @.n + 1]], store')
    /\ UNCHANGED <<last, returned, reads, ma, mb, mc, mres, heap, glob>>

\* line 277
delete_scan(t, tenant, env, component_key) ==
    /\ AtIdle(t)
    /\ pc' = [pc EXCEPT ![t] = [at |-> "assign", n |-> @.n + 1,
                                keep |-> keep(store, tenant, env, component_key)]]
    /\ UNCHANGED <<store, last, returned, reads, ma, mb, mc, mres, heap, glob>>

\* line 278
delete_assign(t) ==
    /\ pc[t].at = "assign"
    /\ store' = pc[t].keep
    /\ pc' = Observe([pc EXCEPT ![t] = [at |-> "idle", n |-> @.n]], store')
    /\ UNCHANGED <<last, returned, reads, ma, mb, mc, mres, heap, glob>>

\* lines 169-174: the key set, from one scan of _store
effective_all_keys(t, tenant, env, route, page) ==
    /\ AtIdle(t)
    /\ pc' = [pc EXCEPT ![t] =
                [at |-> "resolve", n |-> @.n + 1,
                 tenant |-> tenant, env |-> env, route |-> route, page |-> page,
                 keys |-> SortedKeys(known_keys(store, tenant, env)),
                 out |-> EmptyFn, seen |-> {store}]]
    /\ UNCHANGED <<store, last, returned, reads, ma, mb, mc, mres, heap, glob>>

\* line 175, one iteration; the call returns after the last key
effective_all_step(t) ==
    /\ pc[t].at = "resolve"
    /\ LET p == pc[t]
           key == Head(p.keys)
           out == [k \in DOMAIN p.out \cup {key} |->
                      IF k = key
                      THEN effective_for_component(store, p.tenant, p.env, key,
                                                   p.route, p.page)
                      ELSE p.out[k]]
       IN  IF Len(p.keys) > 1
           THEN /\ pc' = [pc EXCEPT ![t] = [p EXCEPT !.keys = Tail(@), !.out = out]]
                /\ UNCHANGED reads
           ELSE /\ pc' = [pc EXCEPT ![t] = [at |-> "idle", n |-> p.n]]
                /\ reads' = <<[tenant |-> p.tenant, env |-> p.env, route |-> p.route,
                               page |-> p.page, result |-> out, seen |-> p.seen]>>
    /\ UNCHANGED <<store, last, returned, ma, mb, mc, mres, heap, glob>>

ConcInit ==
    /\ store = <<>>
    /\ last = Idle
    /\ returned = <<>>
    /\ pc = [t \in Threads |-> [at |-> "idle", n |-> 0]]
    /\ reads = <<>>
    /\ ma = None /\ mb = None /\ mc = None /\ mres = [at |-> "off"]
    /\ heap = <<>>
    /\ glob = [at |-> "off"]

ConcNext ==
    \E t \in Threads :
        \/ \E r \in ConcRequests : upsert_scan(t, r)
        \/ upsert_append(t)
        \/ delete_all_clear(t)
        \/ \E id \in ConcDeletes : delete_scan(t, id[1], id[2], id[3])
        \/ delete_assign(t)
        \/ \E g \in Gets : effective_all_keys(t, g[1], g[2], g[4], g[5])
        \/ effective_all_step(t)

SpecConc == ConcInit /\ [][ConcNext]_vars

\* C2: concurrent upserts to one scope never compute the same nextVersion:
\* no two stored documents of one scope carry the same version.
C2_NoDuplicateVersion ==
    \A i, j \in 1..Len(store) :
        (i # j /\ ScopeOf(store[i]) = ScopeOf(store[j]))
            => store[i].version # store[j].version

\* C8: the result of a read that ran beside writes equals the result of the
\* same read on one of the store states that existed during the call, never
\* a mixture of two of them.
C8_ReadsSeeOneSnapshot ==
    \A i \in 1..Len(reads) :
        \E s \in reads[i].seen :
            reads[i].result
               = effective_all(s, reads[i].tenant, reads[i].env,
                               reads[i].route, reads[i].page)

\* C18: when stored documents of one scope share the maximum version, the
\* latest-per-scope reduction keeps the one that is last in the store.
C18_TieKeepsLast ==
    \A d \in Range(latest_versions_for(store, "default", "dev", "header")) :
        LET top == {i \in 1..Len(store) :
                      /\ SameIdentity(store[i], "default", "dev", "header")
                      /\ store[i].scopeType = d.scopeType
                      /\ store[i].scopeKey = d.scopeKey
                      /\ store[i].version = d.version}
        IN  d = store[CHOOSE i \in top : \A j \in top : j <= i]

(***************************************************************************)
(* Properties of the handlers under Spec                                   *)
(***************************************************************************)
Fields == {"a", "b", "c", "d"}

\* C1: from a store holding no document of a scope, the successful upserts
\* to that scope return 1, 2, ..., N in that order, whatever upserts to other
\* scopes come between them (returned is emptied of a scope by a delete).
C1_VersionsCountUp ==
    \A sc \in {x.scope : x \in Range(returned)} :
        LET mine == SelectSeq(returned, LAMBDA x : x.scope = sc)
        IN  \A i \in 1..Len(mine) : mine[i].version = i

\* two upserts to one scope with an upsert to another scope between them
C1_Witness ==
    /\ Len(returned) = 3
    /\ returned[1].scope = returned[3].scope
    /\ returned[2].scope # returned[1].scope
    /\ returned[2].scope[3] = returned[1].scope[3]
    /\ returned[3].version = 2

\* the value lacks the property that the schema of its component requires
FailsSchema(r) == r.component_key = "header" /\ "b" \notin Keys(ReqValue(r))

\* C3: an upsert whose value fails the schema signals ValidationError with
\* its violations, appends nothing and consumes no version: the store, and
\* the version every later upsert would get, are as before the call.
C3_RejectedUpsertIsAtomic ==
    [][/\ (last'.op = "upsert" /\ FailsSchema(last'.req))
            => last'.status = "ValidationError"
       /\ (last'.op = "upsert" /\ last'.status = "ValidationError")
            => /\ FailsSchema(last'.req)
               /\ last'.details # <<>>
               /\ store' = store
               /\ returned' = returned
               /\ \A r \in Requests : next_version(store', r) = next_version(store, r)
      ]_vars

\* a rejected upsert to a scope that already holds a document
C3_Witness ==
    /\ last.op = "upsert"
    /\ last.status = "ValidationError"
    /\ existing(store, last.req) # <<>>

\* the documents resolve is stated to use: of each scope of the identity,
\* those of maximum version
LatestSet(s, tenant, env, component_key) ==
    {d \in Range(s) :
        /\ SameIdentity(d, tenant, env, component_key)
        /\ \A e \in Range(s) :
              (ScopeOf(e) = ScopeOf(d)) => e.version <= d.version}

MatchingRoutes(s, tenant, env, component_key, route) ==
    {d \in LatestSet(s, tenant, env, component_key) :
        d.scopeType = "route" /\ route # NoStr /\ match_route(d.scopeKey, route)}

MatchingPages(s, tenant, env, component_key, page) ==
    {d \in LatestSet(s, tenant, env, component_key) :
        d.scopeType = "page" /\ page # NoStr /\ d.scopeKey = page}

Globals(s, tenant, env, component_key) ==
    {d \in LatestSet(s, tenant, env, component_key) : d.scopeType = "global"}

\* the (tenant, env, componentKey) triples that have a stored document
StoredIdentities(s) == {<<d.tenant, d.env, d.componentKey>> : d \in Range(s)}

Sets(d, f) == f \in Keys(d.value) /\ ~IsNone(d.value.m[f])
SetsPlain(d, f) == Sets(d, f) /\ ~IsDict(d.value.m[f])

WithoutGlobals(s) == SelectSeq(s, LAMBDA d : d.scopeType # "global")

\* C4: Global, then Page, then Route. A field that the one matching Route
\* document setting it sets to a plain value has that value; a field set
\* that way by the matching Page document and by no matching Route document
\* has the Page document's value; a Global document's value survives when
\* no matching Page or Route document sets the field, and never decides a
\* field that a matching Page or Route document sets to a plain value.
\* This holds in every order of writing and for all version numbers.
C4_GlobalPageRoute ==
    \A id \in StoredIdentities(store), cx \in Contexts :
        LET eff == effective_for_component(store, id[1], id[2], id[3], cx[1], cx[2])
            effPR == effective_for_component(WithoutGlobals(store),
                                             id[1], id[2], id[3], cx[1], cx[2])
            R == MatchingRoutes(store, id[1], id[2], id[3], cx[1])
            P == MatchingPages(store, id[1], id[2], id[3], cx[2])
            G == Globals(store, id[1], id[2], id[3])
        IN  \A f \in Fields :
              /\ \A d \in R :
                    (SetsPlain(d, f) /\ \A e \in R \ {d} : ~Sets(e, f))
                        => Get(eff, f) = d.value.m[f]
              /\ \A d \in P :
                    (SetsPlain(d, f) /\ \A e \in (R \cup P) \ {d} : ~Sets(e, f))
                        => Get(eff, f) = d.value.m[f]
              /\ \A d \in G :
                    (SetsPlain(d, f) /\ \A e \in (R \cup P \cup G) \ {d} : ~Sets(e, f))
                        => Get(eff, f) = d.value.m[f]
              /\ (\E d \in R \cup P : SetsPlain(d, f))
                    => Get(eff, f) = Get(effPR, f)

\* written Route first, then Page, then Global, all three setting "b": the
\* Route document's value is the effective one
C4_Witness ==
    /\ Len(store) = 3
    /\ \A i \in 1..3 : SameIdentity(store[i], "default", "dev", "header")
    /\ store[1].scopeType = "route" /\ store[1].scopeKey = RAll
    /\ store[2].scopeType = "page" /\ store[2].scopeKey = Home
    /\ store[3].scopeType = "global"
    /\ store[1].value.m["b"] # store[2].value.m["b"]
    /\ store[3].value.m["b"] # store[1].value.m["b"]
    /\ Get(effective_for_component(store, "default", "dev", "header", PathA, Home), "b")
          = store[1].value.m["b"]

\* the store without the non-maximal versions of every scope
WithoutOlder(s) ==
    SelectSeq(s, LAMBDA d :
        \A e \in Range(s) : (ScopeOf(e) = ScopeOf(d)) => e.version <= d.version)

NoEqualScores(s, tenant, env, component_key, route) ==
    /\ Cardinality(Globals(s, tenant, env, component_key)) <= 1
    /\ \A d, e \in MatchingRoutes(s, tenant, env, component_key, route) :
          (d # e) => Len(d.scopeKey) # Len(e.scopeKey)

C6_ReadAfterWrite ==
    /\ (last.op = "upsert" /\ last.status = "ok")
          => LET d == NewDoc(last.req, last.version)
                 h == history_docs(store, d.tenant, d.env, d.componentKey)
                 l == latest_versions_for(store, d.tenant, d.env, d.componentKey)
             IN  /\ d \in Range(l)
                 /\ d \in Range(h)
                 /\ \A e \in Range(h) : (ScopeOf(e) = ScopeOf(d)) => e.version <= d.version
    /\ (last.op = "delete_all")
          => \A id \in Identities, cx \in Contexts :
                effective_for_component(store, id[1], id[2], id[3], cx[1], cx[2])
                   = default_for(id[3])
    /\ (last.op = "delete_component")
          => /\ \A cx \in Contexts :
                   effective_for_component(store, last.tenant, last.env,
                                           last.component_key, cx[1], cx[2])
                      = default_for(last.component_key)
             /\ history_docs(store, last.tenant, last.env, last.component_key) = <<>>

\* a second version has just been written, and a delete has just removed
\* documents
C6_Witness ==
    \/ /\ last.op = "upsert" /\ last.status = "ok" /\ last.version = 2
       /\ Len(store) = 3
    \/ /\ last.op = "delete_component" /\ last.removed = 2 /\ Len(store) = 1

\* C7: delete_component(tenant, env, componentKey) removes every document of
\* that triple and nothing else: the documents that differ in tenant, env or
\* componentKey stay, unchanged and in the same order.
C7_DeleteComponentFrame ==
    [][(last'.op = "delete_component")
          => store' = SelectSeq(store, LAMBDA d :
                         \/ d.tenant # last'.tenant
                         \/ d.env # last'.env
                         \/ d.componentKey # last'.component_key)
      ]_vars

\* a delete that removed a document and kept one that differs only in env
C7_Witness ==
    /\ last.op = "delete_component"
    /\ last.removed >= 1
    /\ \E d \in Range(store) :
          /\ d.tenant = last.tenant
          /\ d.componentKey = last.component_key
          /\ d.env # last.env

\* the identities resolve is asked about: those written to, and components
\* and tenant/env pairs that never hold a document
AskedIdentities ==
    Identities \cup {<<"default", "dev", "banner">>, <<"default", "dev", "menu">>,
                     <<"acme", "prod", "header">>, <<"acme", "dev", "footer">>}

\* the baseline the registry is stated to give each component
Baseline(component_key) ==
    CASE component_key = "header" -> HeaderDefault
      [] component_key = "banner" -> BannerDefault
      [] OTHER -> EmptyDict

\* C11: for an identity with no stored document, resolve returns exactly
\* the component's registered default in every route/page context, and the
\* empty mapping when the component has no registry entry ("footer") or its
\* entry declares no default ("menu").
C11_NoDocumentsGivesDefault ==
    \A id \in AskedIdentities :
        (\A d \in Range(store) : ~SameIdentity(d, id[1], id[2], id[3]))
            => \A cx \in Contexts :
                  effective_for_component(store, id[1], id[2], id[3], cx[1], cx[2])
                      = Baseline(id[3])

\* the store holds documents of other identities only, and the resolve of
\* ("default", "dev", "header") returned the registered default
C11_Witness ==
    /\ last.op = "get_component_effective"
    /\ Len(store) = 2
    /\ \A d \in Range(store) :
          ~SameIdentity(d, last.tenant, last.env, last.component_key)
    /\ \E d \in Range(store) : d.componentKey = last.component_key
    /\ last.result = HeaderDefault

\* x comes before y in the order (scopeType, scopeKey, version) ascending
OrderedBefore(x, y) ==
    IF x.scopeType # y.scopeType
    THEN TypeRank(x.scopeType) < TypeRank(y.scopeType)
    ELSE IF x.scopeKey # y.scopeKey
         THEN StrLess(x.scopeKey, y.scopeKey)
         ELSE x.version < y.version

\* C13: history(tenant, env, componentKey) holds every stored document of
\* the triple, all scopes and all versions, and no document of another
\* triple, in ascending order of (scopeType, scopeKey, version); it has as
\* many entries as successful upserts were made to the triple since its
\* last delete.
C13_HistoryIsEveryVersionInOrder ==
    \A id \in Identities :
        LET h == history_docs(store, id[1], id[2], id[3])
            mine == {i \in 1..Len(store) : SameIdentity(store[i], id[1], id[2], id[3])}
        IN  /\ Range(h) = {store[i] : i \in mine}
            /\ Len(h) = Cardinality(mine)
            /\ \A i, j \in 1..Len(h) : (i < j) => OrderedBefore(h[i], h[j])
            /\ Len(h) = Len(SelectSeq(returned, LAMBDA x :
                               <<x.scope[1], x.scope[2], x.scope[3]>> = id))

\* written route first, then two versions of the global scope: history
\* lists global 1, global 2, route 1
C13_Witness ==
    /\ last.op = "get_history"
    /\ Len(last.result) = 3
    /\ last.result[1].version = 1 /\ last.result[2].version = 2
    /\ last.result[2].scopeType = "global"
    /\ last.result[3] = store[1]

TenantEnvs == {<<"default", "dev">>, <<"acme", "dev">>, <<"default", "prod">>,
               <<"acme", "prod">>}

\* the keys resolveAll is stated to have for a tenant and env
StatedKeys(s, tenant, env) ==
    {"header", "banner", "menu"}
        \cup {k \in {"footer"} :
                 \E d \in Range(s) :
                     d.componentKey = k /\ d.tenant = tenant /\ d.env = env}

\* C14: resolveAll(tenant, env, route, page) is a mapping whose keys are the
\* componentKeys of the registry together with those of the stored
\* documents of that tenant and env, and no other, and whose value at each
\* key is resolve(tenant, env, key, route, page).
C14_ResolveAllKeysAndValues ==
    /\ \A te \in TenantEnvs :
          DOMAIN effective_all(store, te[1], te[2], NoStr, NoStr)
              = StatedKeys(store, te[1], te[2])
    /\ (last.op = "get_all_effective")
          => /\ DOMAIN last.result = StatedKeys(store, last.tenant, last.env)
             /\ \A k \in DOMAIN last.result :
                   last.result[k]
                      = effective_for_component(store, last.tenant, last.env, k,
                                                last.route, last.page)

\* "footer", not in the registry, is stored under ("default", "dev") next to
\* a document of tenant "acme": it is a key for ("default", "dev") and not
\* for ("acme", "dev")
C14_Witness ==
    /\ last.op = "get_all_effective"
    /\ last.tenant = "default" /\ last.env = "dev"
    /\ DOMAIN last.result = {"banner", "footer", "header", "menu"}
    /\ \E d \in Range(store) : d.tenant = "acme"
    /\ "footer" \notin DOMAIN effective_all(store, "acme", "dev", PathA, Home)
    /\ last.result["footer"] = V3

\* C20: with calls made one at a time, the versions of the stored
\* documents of each scope are exactly 1, ..., k, each once, and the version
\* a successful upsert returns is the number of documents its scope then
\* holds: 1 again when a delete has removed the scope's documents.
C20_VersionsAreOneToK ==
    /\ \A sc \in {ScopeOf(d) : d \in Range(store)} :
          LET at == {i \in 1..Len(store) : ScopeOf(store[i]) = sc}
          IN  /\ {store[i].version : i \in at} = 1..Cardinality(at)
              /\ \A i, j \in at : (i < j) => store[i].version < store[j].version
    /\ (last.op = "upsert" /\ last.status = "ok")
          => /\ last.version
                   = Cardinality({i \in 1..Len(store) :
                                    ScopeOf(store[i]) = ScopeOf(NewDoc(last.req, 0))})
             /\ last.after_delete => last.version = 1

\* a delete removed the documents of a scope and the upsert right after it
\* got version 1 for that scope, next to another scope holding 1 and 2
C20_Witness ==
    /\ last.op = "upsert" /\ last.status = "ok"
    /\ last.after_delete
    /\ last.version = 1
    /\ Len(store) = 3
    /\ \E i, j \in 1..2 :
          /\ ScopeOf(store[i]) = ScopeOf(store[j])
          /\ store[i].version = 1 /\ store[j].version = 2

(***************************************************************************)
(* SpecMerge: deep_merge applied to bounded structured values              *)
(***************************************************************************)
MapsOver(keys, vals) ==
    UNION {{Map(f) : f \in [ks -> vals]} : ks \in SUBSET keys}

InnerMaps == MapsOver({"x", "y"}, {None, Num(1)})
FieldValues == {None, Num(1), Arr(<<Num(1)>>)} \cup InnerMaps
TopMaps == MapsOver({"k", "j"}, FieldValues)
MergeArgs == TopMaps \cup {None, Num(2), Arr(<<Num(2)>>)}
ThirdArgs == MapsOver({"k"}, FieldValues)

MergeInit ==
    /\ store = <<>>
    /\ last = Idle
    /\ returned = <<>>
    /\ pc = [t \in Threads |-> [at |-> "idle", n |-> 0]]
    /\ reads = <<>>
    /\ ma \in MergeArgs
    /\ mb \in MergeArgs
    /\ mc = None
    /\ mres = [at |-> "args"]
    /\ heap = <<>>
    /\ glob = [at |-> "off"]

merge_pair ==
    /\ mres.at = "args"
    /\ mres' = [at |-> "pair", out |-> deep_merge(ma, mb)]
    /\ UNCHANGED <<store, last, returned, pc, reads, ma, mb, mc, heap, glob>>

merge_three(c) ==
    /\ mres.at = "pair"
    /\ mc' = c
    /\ mres' = [at |-> "three",
                left |-> deep_merge(deep_merge(ma, mb), c),
                right |-> deep_merge(ma, deep_merge(mb, c))]
    /\ UNCHANGED <<store, last, returned, pc, reads, ma, mb, heap, glob>>

MergeNext ==
    \/ merge_pair
    \/ \E c \in ThirdArgs : merge_three(c)

SpecMerge == MergeInit /\ [][MergeNext]_vars

(***************************************************************************)
(* C9, C10: deep_merge                                                     *)
(***************************************************************************)
\* C9 (as stated): deep merge is associative,
\* merge(merge(a, b), c) = merge(a, merge(b, c)) for all structured a, b, c.
C9_Associative ==
    (mres.at = "three" /\ IsDict(ma) /\ IsDict(mb) /\ IsDict(mc))
        => mres.left = mres.right

\* a and c hold mappings at some field path where b holds a non-null value
\* that is not a mapping
RECURSIVE MiddleReplaces(_, _, _)
MiddleReplaces(a, b, c) ==
    /\ IsDict(a)
    /\ IsDict(c)
    /\ IF IsDict(b)
       THEN \E k \in Keys(a) \cap Keys(b) \cap Keys(c) :
               MiddleReplaces(a.m[k], b.m[k], c.m[k])
       ELSE ~IsNone(b)

\* C9 (amended): for mappings a, b, c, merge(merge(a, b), c) =
\* merge(a, merge(b, c)) whenever no field path holds a mapping in a, a
\* non-null non-mapping value in b and a mapping in c.
C9_AssociativeUnlessMiddleReplaces ==
    (/\ mres.at = "three"
     /\ IsDict(ma) /\ IsDict(mb) /\ IsDict(mc)
     /\ ~MiddleReplaces(ma, mb, mc))
        => mres.left = mres.right

\* three mappings that all hold a mapping at "k", merged field by field
C9_Witness ==
    /\ mres.at = "three"
    /\ ~MiddleReplaces(ma, mb, mc)
    /\ ma = One("k", One("x", Num(1)))
    /\ mb = One("k", One("y", Num(1)))
    /\ mc = One("k", One("x", None))
    /\ mres.left = One("k", Both(One("x", Num(1)), One("y", Num(1))))

\* out is what the merge of base and override is stated to be
RECURSIVE MergedAs(_, _, _)
MergedAs(out, base, override) ==
    IF IsNone(override) THEN out = base
    ELSE IF IsDict(base) /\ IsDict(override)
         THEN /\ IsDict(out)
              /\ Keys(out) = Keys(base) \cup Keys(override)
              /\ \A k \in Keys(out) :
                    IF k \notin Keys(override) THEN out.m[k] = base.m[k]
                    ELSE IF k \notin Keys(base) THEN out.m[k] = override.m[k]
                    ELSE MergedAs(out.m[k], base.m[k], override.m[k])
         ELSE out = override

\* C10: deep_merge(base, override) of two mappings has the keys of both; a
\* key only in base keeps base's value, a key only in override holds
\* override's value, a key in both holds the merge of the two values; a
\* non-null override that does not pair mapping with mapping replaces the
\* base, a null override leaves the base unchanged.
C10_MergeShape ==
    mres.at = "pair" => MergedAs(mres.out, ma, mb)

\* a partial override of a nested mapping keeps the sibling field "x" of the
\* base, and an array replaces an array
C10_Witness ==
    /\ mres.at = "pair"
    /\ ma = Both(One("k", Both(One("x", Num(1)), One("y", Num(1)))),
                 One("j", Arr(<<Num(1)>>)))
    /\ mb = One("k", One("y", None))
    /\ mres.out = ma

(***************************************************************************)
(* SpecHeap: the handlers over Python's objects. A dict is an object at an *)
(* address of heap, a function from its keys to cells; a cell is a number, *)
(* null, an array (never written to by main.py, kept as a value) or a      *)
(* reference to a dict. A stored document's value, and each registry       *)
(* default, is a reference. The objects a handler creates are placed after *)
(* the objects that exist when it is called, and are dropped when it has   *)
(* returned its response.                                                  *)
(***************************************************************************)
MaxHeap == 10

Ref(a) == [t |-> "ref", a |-> a]
IsRef(c) == c.t = "ref"

\* d[k] = c on the dict object obj
SetItem(obj, k, c) ==
    [x \in DOMAIN obj \cup {k} |-> IF x = k THEN c ELSE obj[x]]

\* the objects of a value, created new (json parsing, deepcopy, asdict):
\* <<heap, cell>>
RECURSIVE Build(_, _)
RECURSIVE BuildItems(_, _, _, _)
Build(h, v) ==
    IF IsDict(v)
    THEN LET a == Len(h) + 1
         IN  <<BuildItems(Append(h, EmptyFn), a, v, Keys(v)), Ref(a)>>
    ELSE <<h, v>>

BuildItems(h, a, v, keys) ==
    IF keys = {} THEN h
    ELSE LET k == CHOOSE x \in keys : TRUE
             r == Build(h, v.m[k])
         IN  BuildItems([r[1] EXCEPT ![a] = SetItem(@, k, r[2])], a, v, keys \ {k})

\* the value a cell stands for (what json serialization reads)
RECURSIVE Read(_, _)
Read(h, c) ==
    IF IsRef(c) THEN Map([k \in DOMAIN h[c.a] |-> Read(h, h[c.a][k])]) ELSE c

\* deep_merge (main.py 87-96) on objects: <<heap, cell>>
RECURSIVE deep_merge_obj(_, _, _)
RECURSIVE merge_items(_, _, _, _, _)

\* lines 92-93: for k, v in override.items(): out[k] = deep_merge(base.get(k), v)
merge_items(h, out, base, override, keys) ==
    IF keys = {} THEN h
    ELSE LET k == CHOOSE x \in keys : TRUE
             bk == IF k \in DOMAIN h[base] THEN h[base][k] ELSE None
             r == deep_merge_obj(h, bk, h[override][k])
         IN  merge_items([r[1] EXCEPT ![out] = SetItem(@, k, r[2])],
                         out, base, override, keys \ {k})

\* a plausible slip: out = base instead of out = dict(base), the merge
\* written into the base object
deep_merge_in_place(h, base, override) ==
    IF IsNone(override) THEN <<h, base>>
    ELSE IF IsRef(base) /\ IsRef(override)
         THEN <<merge_items(h, base.a, base.a, override.a, DOMAIN h[override.a]),
                base>>
         ELSE <<h, override>>

\* line 91: dict(base) is a new object with base's keys and cells
deep_merge_obj(h, base, override) ==
    IF IsNone(override) THEN <<h, base>>
    ELSE IF IsRef(base) /\ IsRef(override)
         THEN LET out == Len(h) + 1
              IN  <<merge_items(Append(h, h[base.a]), out, base.a, override.a,
                                DOMAIN h[override.a]),
                    Ref(out)>>
         ELSE <<h, override>>

\* _registry after load_registry: the default objects of "header" and "banner"
HeaderBuilt == Build(<<>>, HeaderDefault)
BannerBuilt == Build(HeaderBuilt[1], BannerDefault)
registry_heap == BannerBuilt[1]
default_ref(component_key) ==
    IF component_key = "header" THEN HeaderBuilt[2] ELSE BannerBuilt[2]

\* default_for (main.py 99-101): a deepcopy of the default, or a new {}
default_for_obj(h, component_key) ==
    IF component_key \in DOMAIN registry
       /\ "default" \in DOMAIN registry[component_key]
    THEN Build(h, Read(h, default_ref(component_key)))
    ELSE Build(h, EmptyDict)

\* lines 157-162
RECURSIVE merge_all_obj(_, _, _)
merge_all_obj(h, effective, docs) ==
    IF docs = <<>> THEN <<h, effective>>
    ELSE LET r == deep_merge_obj(h, effective, Head(docs).value)
         IN  merge_all_obj(r[1], r[2], Tail(docs))

\* effective_for_component (main.py 149-164) on objects: <<heap, cell>>
effective_for_component_obj(h, s, tenant, env, component_key, route, page) ==
    LET docs == latest_versions_for(s, tenant, env, component_key)
        e0 == default_for_obj(h, component_key)
        e1 == merge_all_obj(e0[1], e0[2], sort_scopes(globals_(docs)))
        e2 == merge_all_obj(e1[1], e1[2], sort_scopes(pages_(docs, page)))
    IN  merge_all_obj(e2[1], e2[2], sort_scopes(routes_(docs, route)))

\* effective_all (main.py 167-176) on objects: <<heap, out>>
RECURSIVE effective_all_obj(_, _, _, _, _, _, _)
effective_all_obj(h, s, tenant, env, route, page, keys) ==
    IF keys = <<>> THEN <<h, EmptyFn>>
    ELSE LET e == effective_for_component_obj(h, s, tenant, env, Head(keys),
                                              route, page)
             rest == effective_all_obj(e[1], s, tenant, env, route, page, Tail(keys))
         IN  <<rest[1], SetItem(rest[2], Head(keys), e[2])>>

\* line 213: asdict(d) copies the value of each document: <<heap, docs>>
RECURSIVE asdict_all(_, _)
asdict_all(h, docs) ==
    IF docs = <<>> THEN <<h, <<>>>>
    ELSE LET c == Build(h, Read(h, Head(docs).value))
             rest == asdict_all(c[1], Tail(docs))
         IN  <<rest[1], <<[Head(docs) EXCEPT !.value = c[2]]>> \o rest[2]>>

\* the documents of a sequence with their values read
ReadDocs(h, docs) ==
    [i \in 1..Len(docs) |-> [docs[i] EXCEPT !.value = Read(h, @)]]

F1 == One("d", One("y", Num(1)))
F2 == Both(One("d", One("x", Num(2))), One("c", Num(1)))
W1 == Both(One("b", Num(1)), One("d", One("x", Num(1))))

HeapRequests ==
    {[component_key |-> "header", tenant_q |-> "", env_q |-> "",
      body |-> [value |-> V2]],
     [component_key |-> "header", tenant_q |-> "", env_q |-> "",
      body |-> [value |-> W1]],
     [component_key |-> "header", tenant_q |-> "", env_q |-> "",
      body |-> [scopeType |-> "route", scopeKey |-> RAll, value |-> W1]],
     [component_key |-> "header", tenant_q |-> "", env_q |-> "",
      body |-> [scopeType |-> "page", scopeKey |-> Home, value |-> V3]],
     [component_key |-> "footer", tenant_q |-> "", env_q |-> "",
      body |-> [value |-> F1]],
     [component_key |-> "footer", tenant_q |-> "", env_q |-> "",
      body |-> [scopeType |-> "page", scopeKey |-> Home, value |-> F2]]}

HeapGets ==
    {<<"default", "dev", "header", PathA, Home>>,
     <<"default", "dev", "footer", PathA, Home>>}

\* upsert_component (main.py 219-258): the body's objects exist from parsing
upsert_rejected_obj(r) ==
    /\ validate_value(r.component_key, ReqValue(r)) # <<>>
    /\ last' = [op |-> "upsert", status |-> "ValidationError", req |-> r,
                details |-> validate_value(r.component_key, ReqValue(r))]
    /\ UNCHANGED <<store, heap>>

\* a plausible slip: an upsert in the usual sense, the scope's latest
\* document overwritten with the new value when the scope has one
upsert_replacing_obj(r) ==
    /\ validate_value(r.component_key, ReqValue(r)) = <<>>
    /\ Len(store) < MaxStore
    /\ LET b == Build(heap, ReqValue(r))
           doc == [NewDoc(r, next_version(store, r)) EXCEPT !.value = b[2]]
           at == {i \in 1..Len(store) : ScopeOf(store[i]) = ScopeOf(doc)}
       IN  /\ heap' = b[1]
           /\ store' = IF at = {} THEN Append(store, doc)
                       ELSE [store EXCEPT ![CHOOSE i \in at : \A j \in at : j <= i] = doc]
    /\ last' = [op |-> "upsert", status |-> "ok", req |-> r,
                version |-> next_version(store, r)]

upsert_appended_obj(r) ==
    /\ validate_value(r.component_key, ReqValue(r)) = <<>>
    /\ Len(store) < MaxStore
    /\ LET b == Build(heap, ReqValue(r))
       IN  /\ heap' = b[1]
           /\ store' = Append(store,
                          [NewDoc(r, next_version(store, r)) EXCEPT !.value = b[2]])
    /\ last' = [op |-> "upsert", status |-> "ok", req |-> r,
                version |-> next_version(store, r)]

upsert_component_obj(r) ==
    /\ Len(heap) + 2 <= MaxHeap
    /\ upsert_rejected_obj(r) \/ upsert_appended_obj(r)
    /\ UNCHANGED <<returned, pc, reads, ma, mb, mc, mres, glob>>

\* delete_all (main.py 262-267): no stored object is referenced any more
delete_all_obj ==
    /\ store' = <<>>
    /\ heap' = registry_heap
    /\ last' = [op |-> "delete_all", status |-> "cleared", removed |-> Len(store)]
    /\ UNCHANGED <<returned, pc, reads, ma, mb, mc, mres, glob>>

\* delete_component (main.py 270-280)
delete_component_obj(tenant, env, component_key) ==
    /\ store' = keep(store, tenant, env, component_key)
    /\ last' = [op |-> "delete_component", status |-> "deleted",
                tenant |-> tenant, env |-> env, component_key |-> component_key,
                removed |-> Len(store) - Len(keep(store, tenant, env, component_key))]
    /\ UNCHANGED <<heap, returned, pc, reads, ma, mb, mc, mres, glob>>

get_component_effective_obj(component_key, tenant, env, route, page) ==
    /\ LET e == effective_for_component_obj(heap, store, tenant, env,
                                            component_key, route, page)
       IN  /\ last' = [op |-> "get_component_effective", tenant |-> tenant,
                       env |-> env, component_key |-> component_key,
                       route |-> route, page |-> page,
                       result |-> Read(e[1], e[2])]
           /\ heap' = SubSeq(e[1], 1, Len(heap))
    /\ UNCHANGED <<store, returned, pc, reads, ma, mb, mc, mres, glob>>

get_all_effective_obj(tenant, env, route, page) ==
    /\ LET e == effective_all_obj(heap, store, tenant, env, route, page,
                                  SortedKeys(known_keys(store, tenant, env)))
       IN  /\ last' = [op |-> "get_all_effective", tenant |-> tenant, env |-> env,
                       route |-> route, page |-> page,
                       result |-> [k \in DOMAIN e[2] |-> Read(e[1], e[2][k])]]
           /\ heap' = SubSeq(e[1], 1, Len(heap))
    /\ UNCHANGED <<store, returned, pc, reads, ma, mb, mc, mres, glob>>

get_history_obj(component_key, tenant, env) ==
    /\ LET c == asdict_all(heap, SelectSeq(store, LAMBDA d :
                                 SameIdentity(d, tenant, env, component_key)))
       IN  /\ last' = [op |-> "get_history", tenant |-> tenant, env |-> env,
                       component_key |-> component_key,
                       result |-> HistSort(ReadDocs(c[1], c[2]), <<>>)]
           /\ heap' = SubSeq(c[1], 1, Len(heap))
    /\ UNCHANGED <<store, returned, pc, reads, ma, mb, mc, mres, glob>>

HeapInit ==
    /\ store = <<>>
    /\ last = Idle
    /\ returned = <<>>
    /\ pc = [t \in Threads |-> [at |-> "idle", n |-> 0]]
    /\ reads = <<>>
    /\ ma = None /\ mb = None /\ mc = None /\ mres = [at |-> "off"]
    /\ heap = registry_heap
    /\ glob = [at |-> "off"]

HeapNext ==
    \/ \E r \in HeapRequests : upsert_component_obj(r)
    \/ delete_all_obj
    \/ \E id \in ConcDeletes : delete_component_obj(id[1], id[2], id[3])
    \/ \E g \in HeapGets : get_component_effective_obj(g[3], g[1], g[2], g[4], g[5])
    \/ \E g \in HeapGets : get_all_effective_obj(g[1], g[2], g[4], g[5])
    \/ \E g \in HeapGets : get_history_obj(g[3], g[1], g[2])

SpecHeap == HeapInit /\ [][HeapNext]_vars

Reads == {"get_component_effective", "get_all_effective", "get_history"}

\* C12: resolve, resolveAll and history are read-only: a call leaves the
\* store, every object of every stored document's value (nested ones
\* included) and the registry's default objects as they were, and a call
\* that follows a call of the same operation with the same arguments, with
\* no write between them, returns an equal result.
C12_ReadsAreReadOnly ==
    [][(last'.op \in Reads)
          => /\ store' = store
             /\ heap' = heap
             /\ Read(heap', default_ref("header")) = HeaderDefault
             /\ Read(heap', default_ref("banner")) = BannerDefault
             /\ (/\ last.op = last'.op
                 /\ last.tenant = last'.tenant /\ last.env = last'.env
                 /\ (last.op # "get_all_effective"
                        => last.component_key = last'.component_key)
                 /\ (last.op # "get_history"
                        => last.route = last'.route /\ last.page = last'.page))
                  => last'.result = last.result
      ]_vars

\* the resolve of "footer" merged the nested mapping of the page document
\* into the nested mapping of the global document, and both stored values
\* are as written
C12_Witness ==
    /\ last.op = "get_component_effective"
    /\ last.component_key = "footer"
    /\ last.result = Both(One("d", Both(One("x", Num(2)), One("y", Num(1)))),
                          One("c", Num(1)))
    /\ Len(store) = 2
    /\ Read(heap, store[1].value) = F1
    /\ Read(heap, store[2].value) = F2

RECURSIVE IsSubsequence(_, _)
IsSubsequence(x, y) ==
    IF x = <<>> THEN TRUE
    ELSE IF y = <<>> THEN FALSE
    ELSE IF Head(x) = Head(y) THEN IsSubsequence(Tail(x), Tail(y))
    ELSE IsSubsequence(x, Tail(y))

\* C15: every store transition is create-only or remove-only. A successful
\* upsert adds one document at the end and leaves every document stored
\* before in place; delete_all and delete_component only remove documents;
\* a rejected upsert and the reads leave the store as it is; and in every
\* step each document that stays keeps its identity, scope, version and
\* value, nested parts included.
C15_CreateOnlyOrRemoveOnly ==
    [][/\ (last'.op = "upsert" /\ last'.status = "ok")
            => /\ Len(store') = Len(store) + 1
               /\ SubSeq(store', 1, Len(store)) = store
               /\ store'[Len(store')].version = last'.version
       /\ (last'.op \in {"delete_all", "delete_component"})
            => IsSubsequence(store', store)
       /\ ((last'.op = "upsert" /\ last'.status # "ok") \/ last'.op \in Reads)
            => store' = store
       /\ \A d \in Range(store) \cap Range(store') :
              Read(heap', d.value) = Read(heap, d.value)
      ]_vars

\* a second version of the header's global scope has been appended with
\* another value; version 1 is still stored with the value it was given
C15_Witness ==
    /\ last.op = "upsert" /\ last.status = "ok" /\ last.version = 2
    /\ Len(store) = 3
    /\ ScopeOf(store[1]) = ScopeOf(store[3])
    /\ store[1].version = 1
    /\ Read(heap, store[1].value) = V2
    /\ Read(heap, store[3].value) = W1

(***************************************************************************)
(* SpecMatch: match_route (main.py 131-133) and the route filter of line   *)
(* 155 on bounded patterns and paths                                       *)
(***************************************************************************)
ProductsAll == <<"/", "p", "r", "o", "d", "u", "c", "t", "s", "/", "*">>
ProductsShoes == <<"/", "p", "r", "o", "d", "u", "c", "t", "s", "/", "s", "h", "o", "e", "s">>
ProductsShoes42 ==
    <<"/", "p", "r", "o", "d", "u", "c", "t", "s", "/", "s", "h", "o", "e", "s", "/", "4", "2">>
ProductShoes == <<"/", "p", "r", "o", "d", "u", "c", "t", "/", "s", "h", "o", "e", "s">>
Products == <<"/", "p", "r", "o", "d", "u", "c", "t", "s">>

RECURSIVE StringsUpTo(_, _)
StringsUpTo(alphabet, n) ==
    IF n = 0 THEN {<<>>}
    ELSE LET shorter == StringsUpTo(alphabet, n - 1)
         IN  shorter \cup {Append(x, c) : x \in shorter, c \in alphabet}

MaxPath == 3

Patterns ==
    {Star, RAll, RPre, RSuf, PathA, PathAB, <<"/", "*", "/", "*">>,
     <<"/", "a", "?">>, <<"*", "a", "*">>, ProductsAll, Products}

Paths ==
    StringsUpTo({"/", "a", "b"}, MaxPath)
        \cup {ProductsShoes, ProductsShoes42, ProductShoes, Products,
              Products \o <<"/">>}

MatchInit ==
    /\ store = <<>>
    /\ last = Idle
    /\ returned = <<>>
    /\ pc = [t \in Threads |-> [at |-> "idle", n |-> 0]]
    /\ reads = <<>>
    /\ ma = None /\ mb = None /\ mc = None /\ mres = [at |-> "off"]
    /\ heap = <<>>
    /\ \E p \in Patterns, r \in Paths :
          glob = [at |-> "args", pattern |-> p, route |-> r]

\* match_route(pattern, route), and line 155 on one Route document
match_route_call ==
    /\ glob.at = "args"
    /\ glob' = [at |-> "done", pattern |-> glob.pattern, route |-> glob.route,
                hit |-> match_route(glob.pattern, glob.route),
                applied |-> routes_(<<ConfigDoc("default", "dev", "header", "route",
                                               glob.pattern, 1, V1)>>,
                                    glob.route) # <<>>]
    /\ UNCHANGED <<store, last, returned, pc, reads, ma, mb, mc, mres, heap>>

\* the same path asked again with another pattern
match_route_again(p) ==
    /\ glob.at = "done"
    /\ glob' = [at |-> "args", pattern |-> p, route |-> glob.route]
    /\ UNCHANGED <<store, last, returned, pc, reads, ma, mb, mc, mres, heap>>

MatchNext ==
    \/ match_route_call
    \/ \E p \in Patterns : match_route_again(p)

SpecMatch == MatchInit /\ [][MatchNext]_vars

\* path r is pattern p with every `*` replaced by some run of characters
\* (none, or any, "/" included) and every `?` by one character
RECURSIVE GlobFits(_, _)
GlobFits(p, r) ==
    IF p = <<>> THEN r = <<>>
    ELSE IF Head(p) = "*"
         THEN \E n \in 0..Len(r) : GlobFits(Tail(p), SubSeq(r, n + 1, Len(r)))
         ELSE /\ r # <<>>
              /\ Head(p) = "?" \/ Head(p) = Head(r)
              /\ GlobFits(Tail(p), Tail(r))

NoWildcard(p) == \A i \in 1..Len(p) : p[i] \notin {"*", "?"}

\* C16: a Route document applies to a request with a route path iff the
\* path matches its scopeKey as a glob in which `*` matches zero or more
\* characters, "/" included: /products/* matches /products/shoes and
\* /products/shoes/42 and not /product/shoes, and a pattern without
\* wildcard characters matches the identical path only.
C16_RouteGlob ==
    (glob.at = "done")
        => /\ glob.hit = GlobFits(glob.pattern, glob.route)
           /\ glob.applied = (glob.route # NoStr /\ glob.hit)
           /\ NoWildcard(glob.pattern) => (glob.hit = (glob.route = glob.pattern))
           /\ (glob.pattern = ProductsAll)
                 => /\ (glob.route \in {ProductsShoes, ProductsShoes42}) => glob.hit
                    /\ (glob.route = ProductShoes) => ~glob.hit

\* /products/* has been matched against /products/shoes/42, across the
\* second "/"
C16_Witness ==
    /\ glob.at = "done"
    /\ glob.pattern = ProductsAll
    /\ glob.route = ProductsShoes42
    /\ glob.hit /\ glob.applied

(***************************************************************************)
(* SpecResolve: get_component_effective asked in every context, between    *)
(* writes to the scopes of ("default", "dev", "header")                     *)
(***************************************************************************)
ResolveRequests ==
    {r \in Requests : r.component_key = "header" /\ r.tenant_q = ""}

ResolveNext ==
    \/ \E r \in ResolveRequests : upsert_component(r)
    \/ delete_component("default", "dev", "header")
    \/ \E cx \in Contexts :
          get_component_effective("header", "default", "dev", cx[1], cx[2])

SpecResolve == Init /\ [][ResolveNext]_vars

\* C17: the matching Route documents (latest version of each pattern) are
\* merged in ascending order of pattern length: a field that a matching
\* Route document sets to a plain value, and that is set otherwise only by
\* matching Route documents of shorter patterns, has the value of that
\* document, in every order of writing and for all version numbers.
C17_LongerPatternWins ==
    (last.op = "get_component_effective")
        => LET R == MatchingRoutes(store, last.tenant, last.env,
                                   last.component_key, last.route)
           IN  \A d \in R, f \in Fields :
                  (/\ SetsPlain(d, f)
                   /\ \A e \in R \ {d} :
                         Sets(e, f) => Len(e.scopeKey) < Len(d.scopeKey))
                      => Get(last.result, f) = d.value.m[f]

\* /a* was written first, /* after it and twice: on the path /a the field
\* "b", set by both, has the value of /a*
C17_Witness ==
    /\ last.op = "get_component_effective"
    /\ last.route = PathA
    /\ Len(store) = 3
    /\ store[1].scopeType = "route" /\ store[1].scopeKey = RPre
    /\ store[2].scopeType = "route" /\ store[2].scopeKey = RAll
    /\ store[3].scopeType = "route" /\ store[3].scopeKey = RAll
    /\ store[3].version = 2
    /\ store[1].value.m["b"] # store[3].value.m["b"]
    /\ Get(last.result, "b") = store[1].value.m["b"]

\* the document is one the request (route, page) is stated to use; a route
\* or page counts as provided when it is a non-empty string
Applicable(d, route, page) ==
    \/ d.scopeType = "global"
    \/ d.scopeType = "page" /\ page # NoStr /\ d.scopeKey = page
    \/ d.scopeType = "route" /\ route # NoStr /\ GlobFits(d.scopeKey, route)

\* C19: a Page document contributes iff a page id is given and equals its
\* scopeKey, a Route document iff a route path is given and matches its
\* pattern, a Global document always. The result is the result on the store
\* without the documents that do not apply; a field that one applicable
\* latest document sets to a plain value, and no other applicable document
\* sets, has that value; with neither route nor page given the result is
\* the default merged with the latest Global document only.
C19_ScopePartition ==
    (last.op = "get_component_effective")
        => LET applying == {d \in LatestSet(store, last.tenant, last.env,
                                            last.component_key) :
                               Applicable(d, last.route, last.page)}
               G == Globals(store, last.tenant, last.env, last.component_key)
           IN  /\ last.result
                     = effective_for_component(
                          SelectSeq(store, LAMBDA d :
                                       Applicable(d, last.route, last.page)),
                          last.tenant, last.env, last.component_key,
                          last.route, last.page)
               /\ \A d \in applying, f \in Fields :
                      (SetsPlain(d, f) /\ \A e \in applying \ {d} : ~Sets(e, f))
                         => Get(last.result, f) = d.value.m[f]
               /\ (last.route = NoStr /\ last.page = NoStr)
                     => last.result
                          = IF G = {} THEN Baseline(last.component_key)
                            ELSE deep_merge(Baseline(last.component_key),
                                            (CHOOSE g \in G : TRUE).value)

\* a Global, a Page ("home") and a Route (/a*) document are stored, and the
\* request gave the page "cart" and the path /ab: the Route document
\* contributes and the Page document does not
C19_Witness ==
    /\ last.op = "get_component_effective"
    /\ last.route = PathAB /\ last.page = Cart
    /\ Len(store) = 3
    /\ {d.scopeType : d \in Range(store)} = {"global", "page", "route"}
    /\ \E g \in Range(store) :
          /\ g.scopeType = "global"
          /\ last.result # deep_merge(HeaderDefault, g.value)
    /\ \E p \in Range(store) : p.scopeType = "page" /\ p.scopeKey = Home
    /\ last.result
          = effective_for_component(store, "default", "dev", "header", PathAB, NoStr)

====
